---- MODULE Spec2Model ----
(***************************************************************************)
(* NeteaseMusicDeduplication (src/src/main.rs) as a state machine.         *)
(*                                                                         *)
(* Strings that the program takes apart (file names, the answer typed at   *)
(* the prompt) are sequences of tokens; a token is a run of characters of  *)
(* one class ("Song", "(", "1", ")", " ", ".", "mp3").  Option<T> is a     *)
(* sequence of length at most one: None is <<>> and Some(x) is <<x>>.      *)
(***************************************************************************)
EXTENDS Integers, Sequences, FiniteSets, TLC

\* ------------------------------------------------------------------ bounds

\* Number of directory entries the walkers hand to the scan loop in one run.
MaxFiles == 3

\* The same number for input roots that overlap, where the walkers come
\* upon a file again (the tree RootsTree).
MaxRootFiles == 4

\* ------------------------------------------------------------ Option, Result

None == <<>>

Some(x) == <<x>>

Ok(x) == [ok |-> TRUE, v |-> x]

Err(e) == [ok |-> FALSE, e |-> e]

\* ------------------------------------------------------------ token strings

Digits == {"0", "1", "2", "3", "4", "5", "6", "7", "8", "9"}

Whitespace == {" ", "\n"}

DigitOf == <<"0", "1", "2", "3", "4", "5", "6", "7", "8", "9">>

\* format!("{}", count) for count >= 0
RECURSIVE Decimal(_)
Decimal(n) ==
    IF n < 10 THEN <<DigitOf[n + 1]>>
    ELSE Decimal(n \div 10) \o <<DigitOf[(n % 10) + 1]>>

\* str::trim
RECURSIVE trim(_)
trim(s) ==
    IF s = <<>> THEN s
    ELSE IF Head(s) \in Whitespace THEN trim(Tail(s))
    ELSE IF s[Len(s)] \in Whitespace THEN trim(SubSeq(s, 1, Len(s) - 1))
    ELSE s

\* str::to_lowercase
to_lowercase(s) ==
    [i \in 1..Len(s) |->
        CASE s[i] = "Y" -> "y"
          [] s[i] = "N" -> "n"
          [] s[i] = "MP3" -> "mp3"
          [] s[i] = "NCM" -> "ncm"
          [] OTHER -> s[i]]

\* Index of the last "." of a file name, 0 when there is none.
RECURSIVE LastDot(_)
LastDot(s) ==
    IF s = <<>> THEN 0
    ELSE IF s[Len(s)] = "." THEN Len(s)
    ELSE LastDot(SubSeq(s, 1, Len(s) - 1))

\* Path::file_stem of a file name (the name is never empty here): the whole
\* name when it has no "." or only a leading one, else the part before the
\* last ".".
file_stem(name) ==
    IF LastDot(name) <= 1 THEN name ELSE SubSeq(name, 1, LastDot(name) - 1)

\* Path::extension
extension(name) ==
    IF LastDot(name) <= 1 THEN None
    ELSE Some(SubSeq(name, LastDot(name) + 1, Len(name)))

\* First index of the run of digits that ends at index i (i + 1 when s[i] is
\* no digit).
RECURSIVE DigitRunStart(_, _)
DigitRunStart(s, i) ==
    IF i >= 1 /\ s[i] \in Digits THEN DigitRunStart(s, i - 1) ELSE i + 1

\* Regex::new(r"\(\d+\)$").replace_all(stem, ""): the pattern is anchored at
\* the end, so at most one group, the last, is removed.
replace_count(stem) ==
    LET n == Len(stem)
        p == DigitRunStart(stem, n - 1)
    IN  IF n >= 3 /\ stem[n] = ")" /\ p <= n - 1 /\ p >= 2 /\ stem[p - 1] = "("
        THEN SubSeq(stem, 1, p - 2)
        ELSE stem

get_file_name_without_count(name) ==
    LET result == replace_count(file_stem(name))
    IN  IF extension(name) /= None
        THEN trim(result) \o <<".">> \o extension(name)[1]
        ELSE trim(result)

set_file_name_count(name, count) ==
    IF extension(name) /= None
    THEN file_stem(name) \o <<"(">> \o Decimal(count) \o <<")", ".">>
             \o extension(name)[1]
    ELSE file_stem(name) \o <<"(">> \o Decimal(count) \o <<")">>

\* ------------------------------------------------------------- media records

\* struct MediaFileInfo
MediaFileInfo(path, music_id, album, track_name, bitrate, duration) ==
    [file_path |-> path, music_id |-> music_id, album |-> album,
     track_name |-> track_name, bitrate |-> bitrate, duration |-> duration]

\* better_than with both comparisons made non-strict: a tie counts as better.
better_than_or_equal(self, other) ==
    \/ other.bitrate < self.bitrate
    \/ (other.bitrate = self.bitrate /\ other.duration <= self.duration)

\* better_than with both comparisons turned around: the lesser record wins.
worse_than(self, other) ==
    \/ other.bitrate > self.bitrate
    \/ (other.bitrate = self.bitrate /\ other.duration > self.duration)

\* MediaFileInfo::better_than
better_than(self, other) ==
    \/ other.bitrate < self.bitrate
    \/ (other.bitrate = self.bitrate /\ other.duration < self.duration)

\* u128::abs_diff
abs_diff(a, b) == IF a < b THEN b - a ELSE a - b

\* ----------------------------------------------------------------- extraction

\* A "163 key(Don't modify):<payload>" tag item is described by what each
\* stage of decrypt_163_key finds in its payload:
\*   b64    the payload is valid base64
\*   cipher the AES-128-ECB/PKCS decryption of the decoded bytes succeeds
\*   utf8   the plaintext is UTF-8
\*   prefix the plaintext starts with "music:"
\*   json   Some(musicId) when the rest parses as {"musicId": <u64>, ...}
Key(b64, cipher, utf8, prefix, json) ==
    [b64 |-> b64, cipher |-> cipher, utf8 |-> utf8, prefix |-> prefix,
     json |-> json]

\* decrypt_163_key: a failed decryption leaves the loop with what was
\* decrypted so far (nothing, for these payloads), which is UTF-8 and does not
\* start with "music:".
decrypt_163_key(key) ==
    IF ~key.b64 THEN Err("base64")
    ELSE IF ~key.cipher THEN Err("unsupported 163 key")
    ELSE IF ~key.utf8 THEN Err("utf8")
    ELSE IF ~key.prefix THEN Err("unsupported 163 key")
    ELSE IF key.json = None THEN Err("json")
    ELSE Ok([music_id |-> key.json[1]])

\* A directory entry and what the libraries find in the file:
\*   path     [dir, name]: the directory (a number) and the file name
\*   is_file  entry.file_type().is_file()
\*   probe    "ok", or "err" when fs::read, ncmdump::convert or lofty fails
\*   ncm_id   Some(id) when ncmdump::get_info succeeds (.ncm files only)
\*   has_tags the decoded stream carries a tag
\*   key      Some(Key(...)) when a tag item starts with the 163 key prefix
\*   album, title   the AlbumTitle and TrackTitle tag texts
\*   bitrate  properties().audio_bitrate()
\*   duration properties().duration().as_millis()
Entry(dir, name, probe, ncm_id, has_tags, key, album, title, bitrate, duration) ==
    [path |-> [dir |-> dir, name |-> name], is_file |-> TRUE, probe |-> probe,
     ncm_id |-> ncm_id, has_tags |-> has_tags, key |-> key, album |-> album,
     title |-> title, bitrate |-> bitrate, duration |-> duration]

get_media_file_info(f) ==
    LET is_ncm == extension(f.path.name) = Some(<<"ncm">>)
        music_id == IF is_ncm THEN f.ncm_id ELSE None
        track_name ==
            IF f.title /= None THEN f.title[1]
            ELSE trim(file_stem(get_file_name_without_count(f.path.name)))
        bitrate == IF f.bitrate /= None THEN f.bitrate[1] ELSE 0
    IN  IF f.probe /= "ok" THEN Err("io")
        ELSE IF ~f.has_tags THEN Err("tags not found")
        ELSE IF f.key /= None
        THEN LET ncm_metadata == decrypt_163_key(f.key[1])
             IN  IF ~ncm_metadata.ok
                 THEN Err(ncm_metadata.e)
                 ELSE Ok(MediaFileInfo(f.path, Some(ncm_metadata.v.music_id),
                                       f.album, track_name, bitrate, f.duration))
        ELSE Ok(MediaFileInfo(f.path, music_id, f.album, track_name, bitrate,
                              f.duration))

\* main's filter on the walker's entries
extensions == {<<"wav">>, <<"mp3">>, <<"flac">>, <<"ncm">>}

IsMediaEntry(f) ==
    /\ f.is_file
    /\ extension(f.path.name) /= None
    /\ to_lowercase(extension(f.path.name)[1]) \in extensions

\* ------------------------------------------------------------------ the maps

\* A map is a function; HashMap::insert
insert(map, k, v) == [x \in DOMAIN map \cup {k} |-> IF x = k THEN v ELSE map[x]]

\* Vec::remove
remove(vec, pos) == SubSeq(vec, 1, pos - 1) \o SubSeq(vec, pos + 1, Len(vec))

\* update_media_info, the Some(music_id) arm
update_id_map(map, file_info) ==
    LET music_id == file_info.music_id[1]
    IN  IF music_id \in DOMAIN map
        THEN IF better_than(file_info, map[music_id])
             THEN insert(map, music_id, file_info)
             ELSE map
        ELSE insert(map, music_id, file_info)

\* self.entry(track_name).or_default()
entry_or_default(map, track_name) ==
    IF track_name \in DOMAIN map THEN map[track_name] ELSE <<>>

\* TrackNameMap::add_media_info
add_media_info(map, media_info) ==
    insert(map, media_info.track_name,
           Append(entry_or_default(map, media_info.track_name), media_info))

\* is_similar with the duration test applied whatever the albums are.
is_similar_any_album(old_media_info, media_info) ==
    \/ old_media_info.album = media_info.album
    \/ abs_diff(old_media_info.duration, media_info.duration) < 1500

\* The test of replace_media_info's scan
is_similar(old_media_info, media_info) ==
    LET has_null_album == old_media_info.album = None \/ media_info.album = None
    IN  \/ old_media_info.album = media_info.album
        \/ (has_null_album
            /\ abs_diff(old_media_info.duration, media_info.duration) < 1500)

\* The scan stopping at its first hit: the position of the first similar
\* entry, 0 when there is none.
similar_pos_first(inner_vec, media_info) ==
    LET hits == {pos \in 1..Len(inner_vec) : is_similar(inner_vec[pos], media_info)}
    IN  IF hits = {} THEN 0 ELSE CHOOSE pos \in hits : \A q \in hits : pos <= q

\* The scan of replace_media_info: the position of the last similar entry,
\* 0 when has_similar stays false.
similar_pos(inner_vec, media_info) ==
    LET hits == {pos \in 1..Len(inner_vec) : is_similar(inner_vec[pos], media_info)}
    IN  IF hits = {} THEN 0 ELSE CHOOSE pos \in hits : \A q \in hits : q <= pos

\* TrackNameMap::replace_media_info
replace_media_info(map, media_info) ==
    LET inner_vec == entry_or_default(map, media_info.track_name)
        pos == similar_pos(inner_vec, media_info)
    IN  IF pos /= 0
        THEN IF better_than(media_info, inner_vec[pos])
             THEN insert(map, media_info.track_name,
                         Append(remove(inner_vec, pos), media_info))
             ELSE insert(map, media_info.track_name, inner_vec)
        ELSE insert(map, media_info.track_name, Append(inner_vec, media_info))

\* ------------------------------------------------------------------ the state

VARIABLES
    pc,               \* where main is: "start", "scan", "move", "check",
                      \* "prompt", "write", "done", or "aborted" after a panic
    dry_run,          \* cli.dry_run
    tree,             \* the directory entries under the input roots
    dir_exists,       \* the output directory exists
    dest,             \* the output directory: file name -> content
    id_map,           \* music id -> MediaFileInfo
    without_id_list,  \* Vec<MediaFileInfo>
    track_name_map,   \* track name -> Vec<MediaFileInfo>
    scanned,          \* entries the walker has yielded so far
    entry,            \* the scan loop's entry: None before the first
    seen,             \* history: the records update_media_info extracted
    move_left,        \* id_map.values(): the keys not yet visited
    check_pos,        \* without_id_list.iter(): the next position
    input_string,     \* the line read at the prompt
    out_left,         \* track_name_map.values(): the keys not yet visited
    out_cur,          \* vec.iter() of the bucket being written: what is left
    printed           \* what the last step printed (stdout and stderr)

vars == <<pc, dry_run, tree, dir_exists, dest, id_map, without_id_list,
          track_name_map, scanned, entry, seen, move_left, check_pos,
          input_string, out_left, out_cur, printed>>

\* What a copy leaves in a destination file: the source it was read from, and
\* whether all of it arrived.
Content(path, whole) == [src |-> path, whole |-> whole]

\* A file that was in the output directory before the run.
Old(name) == Content([dir |-> 0, name |-> name], TRUE)

\* Path::exists of output_dir.join(name)
exists(name) == dir_exists /\ name \in DOMAIN dest

\* The loop as a single test: the first counted name is taken unprobed.
probe_once(filename, count) ==
    IF exists(filename) THEN set_file_name_count(filename, 1) ELSE filename

\* The loop with the count one ahead: the counted names start at (2).
RECURSIVE probe_ahead(_, _)
probe_ahead(filename, count) ==
    LET output_filename ==
            IF count = 0 THEN filename
            ELSE set_file_name_count(filename, count + 1)
    IN  IF exists(output_filename) THEN probe_ahead(filename, count + 1)
        ELSE output_filename

\* The while loop of write_out_media_file, entered with count probes done.
RECURSIVE probe(_, _)
probe(filename, count) ==
    LET output_filename ==
            IF count = 0 THEN filename ELSE set_file_name_count(filename, count)
    IN  IF exists(output_filename) THEN probe(filename, count + 1)
        ELSE output_filename

\* The destination write_out_media_file selects for a record.
output_filename_of(file_info) ==
    probe(get_file_name_without_count(file_info.file_path.name), 0)

\* --------------------------------------------------------------------- lines

DuplicateIdLine(new, old) == [line |-> "duplicate music id found", a |-> new, b |-> old]

ProbablyDuplicateLine(new, old) ==
    [line |-> "probably duplicate music found", a |-> new, b |-> old]

BetterLine == [line |-> "and 1 better than 2"]

ErrorLine(path, e) == [line |-> "error", file |-> path, e |-> e]

CopyLine(from, to) == [line |-> "copy file", from |-> from, to |-> to]

\* The lines replace_media_info prints: one per similar entry, in scan order,
\* then the verdict.
RECURSIVE scan_lines(_, _, _)
scan_lines(inner_vec, media_info, pos) ==
    IF pos > Len(inner_vec) THEN <<>>
    ELSE (IF is_similar(inner_vec[pos], media_info)
          THEN <<ProbablyDuplicateLine(media_info, inner_vec[pos])>>
          ELSE <<>>) \o scan_lines(inner_vec, media_info, pos + 1)

replace_lines(map, media_info) ==
    LET inner_vec == entry_or_default(map, media_info.track_name)
        pos == similar_pos(inner_vec, media_info)
    IN  scan_lines(inner_vec, media_info, 1)
            \o (IF pos /= 0 /\ better_than(media_info, inner_vec[pos])
                THEN <<BetterLine>> ELSE <<>>)

update_lines(map, file_info) ==
    LET music_id == file_info.music_id[1]
    IN  IF music_id \in DOMAIN map
        THEN <<DuplicateIdLine(file_info, map[music_id])>>
                 \o (IF better_than(file_info, map[music_id])
                     THEN <<BetterLine>> ELSE <<>>)
        ELSE <<>>

\* ------------------------------------------------------------------ the walk

Song == <<"Song">>

\* A tag item whose payload decrypts to music:{"musicId": id}
KeyOf(music_id) == Some(Key(TRUE, TRUE, TRUE, TRUE, Some(music_id)))

\* A readable, tagged file outside the proprietary container.
Plain(dir, name, key, album, title, bitrate, duration) ==
    Entry(dir, name, "ok", None, TRUE, key, album, title, Some(bitrate), duration)

\* A tree under input roots that overlap, so that the walkers yield a file
\* more than once: three files of one title without music id, a file with a
\* music id and a file that is not audio.
RootsTree ==
    { Plain(1, <<"Song", ".", "mp3">>, None, Some("A"), Some(Song), 320, 200000),
      Plain(2, <<"Song", ".", "mp3">>, None, Some("B"), Some(Song), 128, 200000),
      Plain(3, <<"Song", ".", "mp3">>, None, None, Some(Song), 320, 199100),
      Plain(4, <<"Song", ".", "mp3">>, KeyOf(1), Some("C"), Some(<<"Other">>),
            128, 200000),
      Plain(5, <<"notes", ".", "txt">>, None, None, None, 0, 0) }

\* The scan loop of main ends when the walkers are exhausted: here, after at
\* most this many entries.
WalkLimit == IF tree = RootsTree THEN MaxRootFiles ELSE MaxFiles

\* ------------------------------------------------------------------- actions

\* main, lines 350-355, with --dry-run
StartDryRun ==
    /\ pc = "start" /\ dry_run
    /\ pc' = "scan"
    /\ printed' = <<>>
    /\ UNCHANGED <<dry_run, tree, dir_exists, dest, id_map, without_id_list,
                   track_name_map, scanned, entry, seen, move_left, check_pos,
                   input_string, out_left, out_cur>>

\* create_dir_all succeeds
CreateOutputDir ==
    /\ pc = "start" /\ ~dry_run
    /\ pc' = "scan"
    /\ dir_exists' = TRUE
    /\ printed' = <<>>
    /\ UNCHANGED <<dry_run, tree, dest, id_map, without_id_list,
                   track_name_map, scanned, entry, seen, move_left, check_pos,
                   input_string, out_left, out_cur>>

\* create_dir_all fails: panic
CreateOutputDirPanic ==
    /\ pc = "start" /\ ~dry_run /\ ~dir_exists
    /\ pc' = "aborted"
    /\ printed' = <<[line |-> "cannot create output dir"]>>
    /\ UNCHANGED <<dry_run, tree, dir_exists, dest, id_map, without_id_list,
                   track_name_map, scanned, entry, seen, move_left, check_pos,
                   input_string, out_left, out_cur>>

\* The scan loop's continue: not a file, no extension, or another extension.
WalkSkip ==
    /\ pc = "scan" /\ scanned < WalkLimit
    /\ \E e \in tree :
         /\ ~IsMediaEntry(e)
         /\ entry' = Some(e)
    /\ scanned' = scanned + 1
    /\ printed' = <<>>
    /\ UNCHANGED <<pc, dry_run, tree, dir_exists, dest, id_map,
                   without_id_list, track_name_map, seen, move_left,
                   check_pos, input_string, out_left, out_cur>>

\* update_media_info on one entry, and main's report of its error
WalkUpdate ==
    /\ pc = "scan" /\ scanned < WalkLimit
    /\ \E e \in tree :
         /\ IsMediaEntry(e)
         /\ entry' = Some(e)
         /\ LET file_info == get_media_file_info(e)
            IN  IF ~file_info.ok
                THEN /\ printed' = <<ErrorLine(e.path, file_info.e)>>
                     /\ UNCHANGED <<id_map, without_id_list, seen>>
                ELSE /\ seen' = Append(seen, file_info.v)
                     /\ IF file_info.v.music_id /= None
                        THEN /\ id_map' = update_id_map(id_map, file_info.v)
                             /\ printed' = update_lines(id_map, file_info.v)
                             /\ UNCHANGED without_id_list
                        ELSE /\ without_id_list' =
                                    Append(without_id_list, file_info.v)
                             /\ printed' = <<>>
                             /\ UNCHANGED id_map
    /\ scanned' = scanned + 1
    /\ UNCHANGED <<pc, dry_run, tree, dir_exists, dest, track_name_map,
                   move_left, check_pos, input_string, out_left, out_cur>>

\* The walkers are exhausted: main goes on to line 399.
WalkEnd ==
    /\ pc = "scan"
    /\ pc' = "move"
    /\ entry' = None
    /\ move_left' = DOMAIN id_map
    /\ printed' = <<>>
    /\ UNCHANGED <<dry_run, tree, dir_exists, dest, id_map, without_id_list,
                   track_name_map, scanned, seen, check_pos, input_string,
                   out_left, out_cur>>

\* One step of id_map.values().for_each(add_media_info): a HashMap iterates
\* in an order of its own.
Move ==
    /\ pc = "move"
    /\ \E music_id \in move_left :
         /\ track_name_map' = add_media_info(track_name_map, id_map[music_id])
         /\ move_left' = move_left \ {music_id}
    /\ printed' = <<>>
    /\ UNCHANGED <<pc, dry_run, tree, dir_exists, dest, id_map,
                   without_id_list, scanned, entry, seen, check_pos, input_string,
                   out_left, out_cur>>

MoveEnd ==
    /\ pc = "move" /\ move_left = {}
    /\ pc' = "check"
    /\ check_pos' = 1
    /\ printed' = <<>>
    /\ UNCHANGED <<dry_run, tree, dir_exists, dest, id_map, without_id_list,
                   track_name_map, scanned, entry, seen, move_left, input_string,
                   out_left, out_cur>>

\* One step of without_id_list.iter().for_each(replace_media_info)
Check ==
    /\ pc = "check" /\ check_pos <= Len(without_id_list)
    /\ track_name_map' =
           replace_media_info(track_name_map, without_id_list[check_pos])
    /\ printed' = replace_lines(track_name_map, without_id_list[check_pos])
    /\ check_pos' = check_pos + 1
    /\ UNCHANGED <<pc, dry_run, tree, dir_exists, dest, id_map,
                   without_id_list, scanned, entry, seen, move_left, input_string,
                   out_left, out_cur>>

\* The loop left at any position: the prompt comes with records unchecked.
CheckEndEarly ==
    /\ pc = "check"
    /\ pc' = "prompt"
    /\ printed' = <<[line |-> "copy music to output dir? (y/N): "]>>
    /\ UNCHANGED <<dry_run, tree, dir_exists, dest, id_map, without_id_list,
                   track_name_map, scanned, entry, seen, move_left, check_pos,
                   input_string, out_left, out_cur>>

CheckEnd ==
    /\ pc = "check" /\ check_pos > Len(without_id_list)
    /\ pc' = "prompt"
    /\ printed' = <<[line |-> "copy music to output dir? (y/N): "]>>
    /\ UNCHANGED <<dry_run, tree, dir_exists, dest, id_map, without_id_list,
                   track_name_map, scanned, entry, seen, move_left, check_pos,
                   input_string, out_left, out_cur>>

\* What the operator may type; read_line keeps the line's end.
Answers ==
    {<<" ", "Y", " ", "\n">>, <<"n", "\n">>, <<"\n">>, <<"yes", "\n">>, <<>>}

\* The comparison turned around: every answer but "n" confirms.
is_not_negative(line) == to_lowercase(trim(line)) /= <<"n">>

\* input_string.trim().to_lowercase() == "y"
is_affirmative(line) == to_lowercase(trim(line)) = <<"y">>

\* main, lines 411-417: the line is read and compared
Prompt ==
    /\ pc = "prompt"
    /\ \E line \in Answers :
         /\ input_string' = line
         /\ IF is_affirmative(line)
            THEN /\ pc' = "write"
                 /\ out_left' = DOMAIN track_name_map
            ELSE /\ pc' = "done"
                 /\ UNCHANGED out_left
    /\ printed' = <<>>
    /\ UNCHANGED <<dry_run, tree, dir_exists, dest, id_map, without_id_list,
                   track_name_map, scanned, entry, seen, move_left, check_pos,
                   out_cur>>

\* read_line fails (the input is not UTF-8): unwrap panics
PromptPanic ==
    /\ pc = "prompt"
    /\ pc' = "aborted"
    /\ printed' = <<[line |-> "panic"]>>
    /\ UNCHANGED <<dry_run, tree, dir_exists, dest, id_map, without_id_list,
                   track_name_map, scanned, entry, seen, move_left, check_pos,
                   input_string, out_left, out_cur>>

\* track_name_map.values() yields the next bucket
NextBucket ==
    /\ pc = "write" /\ out_cur = <<>>
    /\ \E track_name \in out_left :
         /\ out_cur' = track_name_map[track_name]
         /\ out_left' = out_left \ {track_name}
    /\ printed' = <<>>
    /\ UNCHANGED <<pc, dry_run, tree, dir_exists, dest, id_map,
                   without_id_list, track_name_map, scanned, entry, seen, move_left,
                   check_pos, input_string>>

\* The closure without its test of dry_run: the preview copies.
WritePreviewCopies ==
    /\ pc = "write" /\ out_cur /= <<>> /\ dry_run
    /\ LET from_path == Head(out_cur).file_path
           output_filename == output_filename_of(Head(out_cur))
       IN  /\ printed' = <<CopyLine(from_path, output_filename)>>
           /\ dest' = insert(dest, output_filename, Content(from_path, TRUE))
    /\ out_cur' = Tail(out_cur)
    /\ UNCHANGED <<pc, dry_run, tree, dir_exists, id_map, without_id_list,
                   track_name_map, scanned, entry, seen, move_left, check_pos,
                   input_string, out_left>>

\* The closure of write_out_media_file with --dry-run: the plan is printed
WritePreview ==
    /\ pc = "write" /\ out_cur /= <<>> /\ dry_run
    /\ printed' = <<CopyLine(Head(out_cur).file_path,
                             output_filename_of(Head(out_cur)))>>
    /\ out_cur' = Tail(out_cur)
    /\ UNCHANGED <<pc, dry_run, tree, dir_exists, dest, id_map,
                   without_id_list, track_name_map, scanned, entry, seen, move_left,
                   check_pos, input_string, out_left>>

\* The closure of write_out_media_file: fs::copy succeeds
WriteCopy ==
    /\ pc = "write" /\ out_cur /= <<>> /\ ~dry_run
    /\ LET from_path == Head(out_cur).file_path
           output_filename == output_filename_of(Head(out_cur))
       IN  /\ printed' = <<CopyLine(from_path, output_filename)>>
           /\ dest' = insert(dest, output_filename, Content(from_path, TRUE))
    /\ out_cur' = Tail(out_cur)
    /\ UNCHANGED <<pc, dry_run, tree, dir_exists, id_map, without_id_list,
                   track_name_map, scanned, entry, seen, move_left, check_pos,
                   input_string, out_left>>

\* The closure with the error leaving the for_each: no later copy is tried.
WriteCopyErrorStops ==
    /\ pc = "write" /\ out_cur /= <<>> /\ ~dry_run
    /\ printed' = <<CopyLine(Head(out_cur).file_path,
                             output_filename_of(Head(out_cur))),
                    ErrorLine(Head(out_cur).file_path, "io")>>
    /\ out_cur' = <<>>
    /\ out_left' = {}
    /\ UNCHANGED <<pc, dry_run, tree, dir_exists, dest, id_map,
                   without_id_list, track_name_map, scanned, entry, seen,
                   move_left, check_pos, input_string>>

\* The closure of write_out_media_file: fs::copy fails, before it created the
\* destination or after it wrote a part of it; the error is printed.
WriteCopyError ==
    /\ pc = "write" /\ out_cur /= <<>> /\ ~dry_run
    /\ LET from_path == Head(out_cur).file_path
           output_filename == output_filename_of(Head(out_cur))
       IN  /\ printed' = <<CopyLine(from_path, output_filename),
                           ErrorLine(from_path, "io")>>
           /\ \/ UNCHANGED dest
              \/ dest' = insert(dest, output_filename, Content(from_path, FALSE))
    /\ out_cur' = Tail(out_cur)
    /\ UNCHANGED <<pc, dry_run, tree, dir_exists, id_map, without_id_list,
                   track_name_map, scanned, entry, seen, move_left, check_pos,
                   input_string, out_left>>

WriteEnd ==
    /\ pc = "write" /\ out_cur = <<>> /\ out_left = {}
    /\ pc' = "done"
    /\ printed' = <<>>
    /\ UNCHANGED <<dry_run, tree, dir_exists, dest, id_map, without_id_list,
                   track_name_map, scanned, entry, seen, move_left, check_pos,
                   input_string, out_left, out_cur>>

Next ==
    \/ StartDryRun \/ CreateOutputDir \/ CreateOutputDirPanic
    \/ WalkSkip \/ WalkUpdate \/ WalkEnd
    \/ Move \/ MoveEnd
    \/ Check \/ CheckEnd
    \/ Prompt \/ PromptPanic
    \/ NextBucket \/ WritePreview \/ WriteCopy \/ WriteCopyError \/ WriteEnd

\* ------------------------------------------------------------ the libraries

SongMp3 == <<"Song", ".", "mp3">>

\* An input tree of Spec: one music id in several qualities, a second id
\* with the same title and album, and files that fail.
IdTree ==
    { Plain(1, SongMp3, KeyOf(1), Some("A"), Some(Song), 128, 200000),
      Plain(2, SongMp3, KeyOf(1), Some("A"), Some(Song), 320, 200000),
      Plain(3, SongMp3, KeyOf(1), Some("A"), Some(Song), 320, 200900),
      Plain(4, SongMp3, KeyOf(1), Some("A"), Some(Song), 320, 200900),
      Plain(5, SongMp3, KeyOf(2), Some("A"), Some(Song), 320, 200000),
      Plain(10, SongMp3, None, Some("A"), Some(Song), 320, 206000),
      Plain(13, SongMp3, Some(Key(FALSE, TRUE, TRUE, TRUE, Some(1))),
            Some("A"), Some(Song), 320, 200000),
      Entry(14, SongMp3, "err", None, FALSE, None, None, None, None, 0) }

\* An input tree of Spec: one title without music id, in several lengths,
\* qualities and albums.
TitleTree ==
    { Plain(5, SongMp3, KeyOf(2), Some("A"), Some(Song), 320, 200000),
      Plain(6, SongMp3, None, None, Some(Song), 128, 200000),
      Plain(7, SongMp3, None, None, Some(Song), 320, 200900),
      Plain(8, SongMp3, None, None, Some(Song), 320, 201500),
      Plain(9, SongMp3, None, None, Some(Song), 128, 206000),
      Plain(10, SongMp3, None, Some("A"), Some(Song), 320, 206000),
      Plain(11, SongMp3, None, Some("A"), Some(Song), 128, 200000),
      Plain(12, SongMp3, None, Some("B"), Some(Song), 128, 200900),
      Plain(15, <<"notes", ".", "txt">>, None, None, None, 0, 0),
      Plain(16, <<"Other", ".", "mp3">>, None, None, None, 128, 200000) }

\* --------------------------------------------------------- the specification

\* The state at the entry of main: the arguments are parsed, the input tree
\* and the output directory are what the file system holds.
InitWith(inputs, outputs) ==
    /\ pc = "start"
    /\ dry_run \in BOOLEAN
    /\ tree \in inputs
    /\ \E out \in outputs : dir_exists = out.dir_exists /\ dest = out.dest
    /\ id_map = <<>>
    /\ without_id_list = <<>>
    /\ track_name_map = <<>>
    /\ scanned = 0
    /\ entry = None
    /\ seen = <<>>
    /\ move_left = {}
    /\ check_pos = 0
    /\ input_string = <<>>
    /\ out_left = {}
    /\ out_cur = <<>>
    /\ printed = <<>>

\* No output directory yet.
NoOutput == [dir_exists |-> FALSE, dest |-> <<>>]

Init == InitWith({IdTree, TitleTree}, {NoOutput})

Spec == Init /\ [][Next]_vars

Song1Mp3 == <<"Song", "(", "1", ")", ".", "mp3">>

\* The input tree of SpecOut: files of different albums, all survivors, whose
\* names collide once their counts are stripped.
OutTree ==
    { Plain(1, SongMp3, None, Some("A"), Some(Song), 128, 200000),
      Plain(2, SongMp3, KeyOf(1), Some("B"), Some(Song), 128, 200000),
      Plain(3, Song1Mp3, None, Some("C"), Some(Song), 128, 200000),
      Plain(4, <<"Song", " ", "(", "2", ")", ".", "mp3">>, None, Some("D"),
            Some(Song), 128, 200000),
      Plain(5, <<"Song", "(", "1", ")", "(", "1", ")", ".", "mp3">>, None,
            Some("E"), Some(Song), 128, 200000),
      Plain(6, <<"(", "1", ")", ".", "mp3">>, None, Some("F"), Some(Song),
            128, 200000),
      Plain(8, <<"cover", ".", "jpg">>, None, None, None, 0, 0) }

\* An output directory that holds these files from earlier runs.
OutputWith(names) == [dir_exists |-> TRUE, dest |-> [n \in names |-> Old(n)]]

InitOut ==
    InitWith({OutTree}, {NoOutput, OutputWith({SongMp3}), OutputWith({Song1Mp3})})

SpecOut == InitOut /\ [][Next]_vars

SongNcm == <<"Song", ".", "ncm">>

\* The input tree of SpecNcm: files in the proprietary container, with the
\* identifier of the container, of a 163 key item of the decoded stream's
\* tag, or both; and a file outside the container.
NcmTree ==
    { Entry(1, SongNcm, "ok", Some(1), TRUE, KeyOf(2), Some("A"), Some(Song),
            Some(320), 200000),
      Entry(2, SongNcm, "ok", Some(1), TRUE, KeyOf(1), Some("A"), Some(Song),
            Some(128), 200000),
      Entry(3, SongNcm, "ok", Some(1), TRUE, None, Some("A"), Some(Song),
            Some(128), 200900),
      Entry(4, SongNcm, "ok", None, TRUE, KeyOf(2), Some("A"), Some(Song),
            Some(128), 200000),
      Entry(5, SongNcm, "ok", None, TRUE, None, None, Some(Song), None, 200000),
      Entry(6, <<"Song", ".", "NCM">>, "err", None, FALSE, None, None, None,
            None, 0),
      Plain(7, <<"Song", ".", "mp3">>, None, Some("B"), Some(Song), 128, 200000),
      Plain(8, <<"cover", ".", "jpg">>, None, None, None, 0, 0) }

InitNcm == InitWith({NcmTree}, {NoOutput})

SpecNcm == InitNcm /\ [][Next]_vars

InitRoots == InitWith({RootsTree}, {NoOutput})

SpecRoots == InitRoots /\ [][Next]_vars

\* ------------------------------------------------------------ names of files

\* Longest stem of SpecNames, in pieces.
MaxPieces == 3

\* What a stem is put together from: a word, a blank, counts as the file
\* manager and this program append them, and the parts of a broken count.
Pieces ==
    {<<"Song">>, <<" ">>, <<"(", "1", ")">>, <<"(", "2", ")">>, <<"(">>, <<"1">>}

RECURSIVE Stems(_)
Stems(n) ==
    IF n = 0 THEN {<<>>}
    ELSE Stems(n - 1) \cup {s \o p : s \in Stems(n - 1), p \in Pieces}

\* File names: a stem with the extension mp3, or a stem alone.
Names ==
    {s \o <<".", "mp3">> : s \in Stems(MaxPieces)} \cup (Stems(MaxPieces) \ {<<>>})

\* The input trees of SpecNames: a file with a music id and a file of any of
\* the names, without title tag.
NameTrees ==
    {{Plain(1, SongMp3, KeyOf(1), Some("A"), Some(Song), 128, 200000),
      Plain(2, name, None, Some("B"), None, 128, 200000)} : name \in Names}

InitNames == InitWith(NameTrees, {NoOutput})

SpecNames == InitNames /\ [][Next]_vars

\* ------------------------------------------------------------------- claims

Range(seq) == {seq[i] : i \in 1..Len(seq)}

\* The records of the title map, all buckets together.
Survivors == UNION {Range(track_name_map[t]) : t \in DOMAIN track_name_map}

\* main is past line 409: both resolution stages are complete.
Resolved == pc \in {"prompt", "write", "done"}

\* The positions of seen that hold a record with this music id.
SeenWithId(id) == {i \in 1..Len(seen) : seen[i].music_id = Some(id)}

IdsSeen == {seen[i].music_id[1] : i \in {j \in 1..Len(seen) : seen[j].music_id /= None}}

\* C1: after any sequence of extracted records, the identifier map holds an
\* entry for exactly the ids seen, and the entry of an id is the record of
\* greatest bitrate among the records seen with that id, of greatest duration
\* among those, and the first seen among those that remain.
C1_IdentityKeepsBest ==
    /\ DOMAIN id_map = IdsSeen
    /\ \A id \in IdsSeen :
         \E i \in SeenWithId(id) :
            /\ id_map[id] = seen[i]
            /\ \A j \in SeenWithId(id) :
                 \/ seen[j].bitrate < seen[i].bitrate
                 \/ /\ seen[j].bitrate = seen[i].bitrate
                    /\ seen[j].duration < seen[i].duration
                 \/ /\ seen[j].bitrate = seen[i].bitrate
                    /\ seen[j].duration = seen[i].duration
                    /\ i <= j

\* Three records of one id were seen: a worse one, and two files equal in
\* bitrate and duration, of which the map holds the first.
C1_Witness ==
    \E i, j, k \in SeenWithId(1) :
        /\ i < j
        /\ seen[i].file_path /= seen[j].file_path
        /\ seen[i].bitrate = seen[j].bitrate
        /\ seen[i].duration = seen[j].duration
        /\ seen[k].bitrate < seen[i].bitrate
        /\ id_map[1] = seen[i]

\* One album is absent and the durations are 1500 ms or more apart.
DistantWithoutAlbum(a, b) ==
    /\ a.album = None \/ b.album = None
    /\ abs_diff(a.duration, b.duration) >= 1500

\* C2: a record and a bucket entry of its title of which at least one has no
\* album, and whose durations differ by 1500 ms or more, are never reported
\* as a match of each other by the scan of replace_media_info.
C2_DistantKeptDistinct ==
    \A i \in 1..Len(printed) :
        printed[i].line = "probably duplicate music found"
            => ~DistantWithoutAlbum(printed[i].a, printed[i].b)

\* Two different files of one title.
SameTitlePair(i, j) ==
    /\ i < j
    /\ seen[i].file_path /= seen[j].file_path
    /\ seen[i].track_name = seen[j].track_name

\* C3: after both resolution stages, of two records with equal title and
\* equal, present album at most one is a survivor.
C3_SameAlbumMerged ==
    Resolved =>
        \A i, j \in 1..Len(seen) :
            (/\ SameTitlePair(i, j)
             /\ seen[i].album /= None
             /\ seen[i].album = seen[j].album)
                => ~(seen[i] \in Survivors /\ seen[j] \in Survivors)

\* a has the greater (bitrate, duration), in this order.
Better(a, b) ==
    \/ a.bitrate > b.bitrate
    \/ (a.bitrate = b.bitrate /\ a.duration > b.duration)

\* Of seen[i] and seen[j], i < j, the one the heuristic stage meets first:
\* the records with a music id come first, then the others as seen.
FirstProcessed(i, j) ==
    IF seen[i].music_id = None /\ seen[j].music_id /= None
    THEN seen[j] ELSE seen[i]

\* C4: after both resolution stages, of two records with equal title, an
\* absent album on at least one side and durations less than 1500 ms apart,
\* at most one is a survivor; when no other file has that title, the survivor
\* is the better of the two, the first processed when neither is better.
C4_CloseMerged ==
    Resolved =>
        \A i, j \in 1..Len(seen) :
            (/\ SameTitlePair(i, j)
             /\ seen[i].album = None \/ seen[j].album = None
             /\ abs_diff(seen[i].duration, seen[j].duration) < 1500)
                => /\ ~(seen[i] \in Survivors /\ seen[j] \in Survivors)
                   /\ (\A k \in 1..Len(seen) :
                          seen[k].track_name = seen[i].track_name
                              => seen[k] \in {seen[i], seen[j]})
                        => {r \in Survivors : r.track_name = seen[i].track_name}
                             = {IF Better(seen[i], seen[j]) THEN seen[i]
                                ELSE IF Better(seen[j], seen[i]) THEN seen[j]
                                ELSE FirstProcessed(i, j)}

\* Both albums are present and they differ.
AlbumMismatch(a, b) == a.album /= None /\ b.album /= None /\ a.album /= b.album

\* C5: in a step of replace_media_info, no bucket entry whose album is
\* present is reported as a match of an incoming record whose album is
\* present and different; every such entry is still in the bucket after the
\* step, and an incoming record that meets only such entries is appended.
C5_AlbumMismatchNeverMerges ==
    [][(pc = "check" /\ check_pos <= Len(without_id_list)) =>
          LET m == without_id_list[check_pos]
              bucket == entry_or_default(track_name_map, m.track_name)
              after == track_name_map'[m.track_name]
          IN  /\ \A i \in 1..Len(printed') :
                    printed'[i].line = "probably duplicate music found"
                        => ~AlbumMismatch(printed'[i].a, printed'[i].b)
              /\ \A e \in Range(bucket) :
                    AlbumMismatch(e, m) => e \in Range(after)
              /\ (\A e \in Range(bucket) : AlbumMismatch(e, m))
                    => after = Append(bucket, m)
       ]_vars

\* A record without music id was appended to a bucket that holds an entry of
\* another album, less than 1500 ms from it in duration.
C5_Witness ==
    /\ pc = "check"
    /\ \E t \in DOMAIN track_name_map :
         LET bucket == track_name_map[t]
         IN  /\ Len(bucket) >= 2
             /\ bucket[Len(bucket)].music_id = None
             /\ \E i \in 1..(Len(bucket) - 1) :
                  /\ AlbumMismatch(bucket[i], bucket[Len(bucket)])
                  /\ abs_diff(bucket[i].duration, bucket[Len(bucket)].duration)
                       < 1500

\* The name a record is written under when no file has it yet.
Canonical(r) == get_file_name_without_count(r.file_path.name)

\* The closure of write_out_media_file is about to run for Head(out_cur).
AtSurvivor == pc = "write" /\ out_cur /= <<>>

\* C6: no step changes or removes a file of the output directory, and in a
\* run without --dry-run the path handed to fs::copy names no file of the
\* output directory at that moment.
C6_NeverOverwrites ==
    [][/\ \A n \in DOMAIN dest : n \in DOMAIN dest' /\ dest'[n] = dest[n]
       /\ (AtSurvivor /\ ~dry_run) => ~exists(printed'[1].to)
      ]_vars

\* The output directory holds a file of an earlier run and two files written
\* in this run from sources whose canonical name is that file's name.
C6_Witness ==
    \E n1, n2, n3 \in DOMAIN dest :
        /\ dest[n1].src.dir = 0
        /\ n2 /= n3
        /\ dest[n2].src.dir /= 0 /\ dest[n3].src.dir /= 0
        /\ get_file_name_without_count(dest[n2].src.name) = n1
        /\ get_file_name_without_count(dest[n3].src.name) = n1

\* <stem>(<i>).<ext> for i >= 1, the name itself for i = 0.
CountedName(c, i) == IF i = 0 THEN c ELSE set_file_name_count(c, i)

\* The selected destination is the canonical name when it is free, else the
\* counted name of the least count >= 1 that is free.
LeastFreeSelected ==
    AtSurvivor =>
        LET c == Canonical(Head(out_cur))
            to == printed'[1].to
        IN  IF ~exists(c) THEN to = c
            ELSE \E n \in 1..(Cardinality(DOMAIN dest) + 1) :
                    /\ to = set_file_name_count(c, n)
                    /\ ~exists(to)
                    /\ \A m \in 1..(n - 1) : exists(set_file_name_count(c, m))

\* The survivors of one canonical name, and the bucket positions they hold.
SurvivorsNamed(c) == {r \in Survivors : Canonical(r) = c}

PositionsNamed(c) ==
    UNION {{<<t, i>> : i \in {j \in 1..Len(track_name_map[t]) :
                                Canonical(track_name_map[t][j]) = c}} :
           t \in DOMAIN track_name_map}

\* The files of the output directory copied from a survivor of this name.
FilesOf(c) == {n \in DOMAIN dest : \E r \in SurvivorsNamed(c) : dest[n].src = r.file_path}

\* At the end of a run: there are k >= 1 survivors of canonical name c, all
\* different files, and the copy of each succeeded.
WroteAll(c) ==
    /\ SurvivorsNamed(c) /= {}
    /\ Cardinality(PositionsNamed(c)) = Cardinality(SurvivorsNamed(c))
    /\ \A r \in SurvivorsNamed(c) :
          \E n \in DOMAIN dest : dest[n] = Content(r.file_path, TRUE)

FirstNames(c) == {CountedName(c, i) : i \in 0..(Cardinality(SurvivorsNamed(c)) - 1)}

\* C7 as stated: the least free name is selected; and k survivors of one
\* canonical name, written into a destination that did not hold that name
\* (the first of them was written under it), are the files name, name(1),
\* ..., name(k-1).
C7_AsStated ==
    /\ [][LeastFreeSelected]_vars
    /\ []((pc = "done" /\ ~dry_run) =>
            \A c \in {Canonical(r) : r \in Survivors} :
                (WroteAll(c) /\ c \in FilesOf(c)) => FilesOf(c) = FirstNames(c))

\* C7, amended: the least free name is selected; and k survivors of one
\* canonical name, written when none of name, name(1), ..., name(k-1) is the
\* name of another file, are exactly these files.
C7_CollisionNaming ==
    /\ [][LeastFreeSelected]_vars
    /\ []((pc = "done" /\ ~dry_run) =>
            \A c \in {Canonical(r) : r \in Survivors} :
                (WroteAll(c) /\ FirstNames(c) \cap DOMAIN dest \subseteq FilesOf(c))
                    => FilesOf(c) = FirstNames(c))

\* Three survivors of one canonical name were written: the output directory
\* holds them as name, name(1) and name(2).
C7_Witness ==
    \E c \in {Canonical(r) : r \in Survivors} :
        /\ pc = "done" /\ ~dry_run
        /\ WroteAll(c)
        /\ Cardinality(SurvivorsNamed(c)) = 3
        /\ FilesOf(c) = {c, set_file_name_count(c, 1), set_file_name_count(c, 2)}

\* C8: the output directory changes only while the survivors are written,
\* which is after the prompt was answered, and only when the answer, trimmed,
\* is y or Y.
C8_ConfirmationGate ==
    [][dest' /= dest =>
          /\ pc = "write"
          /\ trim(input_string) \in {<<"y">>, <<"Y">>}
      ]_vars

\* A run without --dry-run that has survivors ended on the answer "yes":
\* nothing was written.
C8_Witness ==
    /\ pc = "done" /\ ~dry_run
    /\ Survivors /= {}
    /\ trim(input_string) = <<"yes">>
    /\ \A n \in DOMAIN dest : dest[n].src.dir = 0

\* C9: with --dry-run no step creates the output directory or changes a
\* file of it; and for an output directory that holds Song.mp3, the plan
\* printed for a survivor of canonical name Song.mp3 is Song(1).mp3.
C9_PreviewChangesNothing ==
    [][dry_run =>
          /\ dest' = dest
          /\ dir_exists' = dir_exists
          /\ (/\ AtSurvivor
              /\ dir_exists /\ DOMAIN dest = {SongMp3}
              /\ Canonical(Head(out_cur)) = SongMp3)
                => printed'[1].to = <<"Song", "(", "1", ")", ".", "mp3">>
      ]_vars

\* Scenario D: a preview printed the plan Song(1).mp3 and the output
\* directory still holds Song.mp3 alone.
C9_Witness ==
    /\ dry_run /\ pc = "write"
    /\ dir_exists /\ DOMAIN dest = {SongMp3}
    /\ Len(printed) = 1
    /\ printed[1].line = "copy file"
    /\ printed[1].to = <<"Song", "(", "1", ")", ".", "mp3">>

\* The file has a tag and a 163 key item whose recovery fails at one of the
\* stages of decrypt_163_key.
KeyRecoveryFails(f) ==
    /\ IsMediaEntry(f) /\ f.probe = "ok" /\ f.has_tags
    /\ f.key /= None
    /\ \/ ~f.key[1].b64 \/ ~f.key[1].cipher \/ ~f.key[1].utf8
       \/ ~f.key[1].prefix \/ f.key[1].json = None

\* C10: once the scan loop has processed a file whose key recovery fails, the
\* last record of the list of records without identifier is that file's, and
\* it has no music id.
C10_KeyFailureKeepsFile ==
    (pc = "scan" /\ entry /= None /\ KeyRecoveryFails(entry[1])) =>
        /\ without_id_list /= <<>>
        /\ without_id_list[Len(without_id_list)].file_path = entry[1].path
        /\ without_id_list[Len(without_id_list)].music_id = None

\* The step is update_media_info on an entry whose extraction fails.
ExtractionFails ==
    /\ pc = "scan" /\ entry' /= None /\ IsMediaEntry(entry'[1])
    /\ ~get_media_file_info(entry'[1]).ok

\* The step is update_media_info on an entry whose extraction succeeds.
ExtractionSucceeds ==
    /\ pc = "scan" /\ entry' /= None /\ IsMediaEntry(entry'[1])
    /\ get_media_file_info(entry'[1]).ok

C12_StripIdempotent ==
    (entry /= None /\ IsMediaEntry(entry[1])) =>
        get_file_name_without_count(get_file_name_without_count(entry[1].path.name))
            = get_file_name_without_count(entry[1].path.name)

\* The places of the title map: a title and a position of its bucket.
Places ==
    UNION {{<<t, i>> : i \in 1..Len(track_name_map[t])} : t \in DOMAIN track_name_map}

\* C13: after both resolution stages, no two places of the title map hold
\* records of the same source path, so that no file is copied twice; the
\* walkers may have yielded a file more than once.
C13_NoPathTwice ==
    Resolved =>
        \A p, q \in Places :
            track_name_map[p[1]][p[2]].file_path = track_name_map[q[1]][q[2]].file_path
                => p = q

\* The same-track predicate: the albums are present and equal, or an album is
\* absent and the durations are less than 1500 ms apart.
SameTrack(a, b) ==
    \/ (a.album /= None /\ a.album = b.album)
    \/ ((a.album = None \/ b.album = None)
        /\ abs_diff(a.duration, b.duration) < 1500)

\* C14: from the first step of the heuristic stage on, no two places of one
\* bucket of the title map hold records that satisfy the same-track
\* predicate.
C14_BucketsNonDuplicate ==
    pc \in {"check", "prompt", "write", "done"} =>
        \A t \in DOMAIN track_name_map :
            \A i, j \in 1..Len(track_name_map[t]) :
                i < j => ~SameTrack(track_name_map[t][i], track_name_map[t][j])

\* The place of a phase in main.
Rank(p) ==
    CASE p = "start" -> 0
      [] p = "scan" -> 1
      [] p = "move" -> 2
      [] p = "check" -> 3
      [] p = "prompt" -> 4
      [] p = "write" -> 5
      [] OTHER -> 6

\* The later phases never precede the earlier ones: main never goes back; the
\* identifier map and the list of records without identifier change in the
\* scan loop only, while the title map is empty; the title map changes after
\* the scan loop only, by add_media_info while no record was checked and by
\* replace_media_info once every survivor of the identifier map is moved;
\* and a survivor is visited for its copy only after the last record was
\* checked.
LaterPhasesOrdered ==
    /\ Rank(pc') >= Rank(pc)
    /\ (id_map' /= id_map \/ without_id_list' /= without_id_list \/ seen' /= seen)
          => (pc = "scan" /\ track_name_map = <<>> /\ track_name_map' = <<>>)
    /\ track_name_map' /= track_name_map =>
          \/ pc = "move" /\ check_pos = 0
          \/ pc = "check" /\ move_left = {}
    /\ pc = "check" => move_left = {}
    /\ (pc = "write" \/ dest' /= dest) =>
          (move_left = {} /\ check_pos > Len(without_id_list))

\* The step extracts the metadata of a file.
Extraction == ExtractionFails \/ ExtractionSucceeds

\* C15 as stated: every extraction comes before the first lookup or insert
\* in the identifier map (no file is extracted once the map holds a record),
\* and the later phases are ordered.
C15_AsStated ==
    [][/\ Extraction => id_map = <<>>
       /\ LaterPhasesOrdered]_vars

\* C15, amended: extraction and identity resolution go file by file, the
\* record of a file being looked up in the identifier map in the step that
\* extracts it, before the next file is extracted; and the later phases are
\* ordered.
C15_PhasesOrdered ==
    [][/\ (ExtractionSucceeds /\ get_media_file_info(entry'[1]).v.music_id /= None)
            => id_map' = update_id_map(id_map, get_media_file_info(entry'[1]).v)
       /\ LaterPhasesOrdered]_vars

\* A run went through every phase: files with and without music id were
\* extracted and resolved, and a survivor was copied.
C15_Witness ==
    /\ pc = "done" /\ ~dry_run
    /\ Len(seen) >= 3 /\ Cardinality(DOMAIN id_map) >= 1
    /\ without_id_list /= <<>>
    /\ DOMAIN dest /= {}

\* The file is in the proprietary container; ncmdump::get_info finds an
\* identifier in the container and the decoded stream's tag has a 163 key
\* item that yields one.
BothIdentifiers(f) ==
    /\ IsMediaEntry(f) /\ extension(f.path.name) = Some(<<"ncm">>)
    /\ f.probe = "ok" /\ f.has_tags
    /\ f.ncm_id /= None
    /\ f.key /= None /\ decrypt_163_key(f.key[1]).ok

\* C16: once the scan loop has processed an .ncm file that yields both
\* identifiers, the record extracted from it has the identifier of the
\* container as its music id.
C16_ContainerIdPreferred ==
    (pc = "scan" /\ entry /= None /\ BothIdentifiers(entry[1])) =>
        /\ seen /= <<>>
        /\ seen[Len(seen)].file_path = entry[1].path
        /\ seen[Len(seen)].music_id = entry[1].ncm_id

\* seq without its entry at position pos, the later entries moved up.
Without(seq, pos) ==
    [i \in 1..(Len(seq) - 1) |-> IF i < pos THEN seq[i] ELSE seq[i + 1]]

\* C17: a step of replace_media_info for a record m leaves every other
\* bucket as it was and changes the bucket of m's title in one of three
\* ways: no entry matches and m is appended; or entries match, m is better
\* than the last of them in bucket order, and the bucket is as before
\* without that entry, with m appended; or entries match, m is not better
\* than the last of them, and the bucket is as before. The bucket never
\* gets shorter.
C17_ReplaceStepFrame ==
    [][(pc = "check" /\ check_pos <= Len(without_id_list)) =>
          LET m == without_id_list[check_pos]
              bucket == IF m.track_name \in DOMAIN track_name_map
                        THEN track_name_map[m.track_name] ELSE <<>>
              matches == {i \in 1..Len(bucket) : is_similar(bucket[i], m)}
              after == track_name_map'[m.track_name]
          IN  /\ DOMAIN track_name_map' = DOMAIN track_name_map \cup {m.track_name}
              /\ \A t \in DOMAIN track_name_map :
                    t /= m.track_name => track_name_map'[t] = track_name_map[t]
              /\ Len(after) >= Len(bucket)
              /\ IF matches = {} THEN after = Append(bucket, m)
                 ELSE LET last == CHOOSE i \in matches : \A j \in matches : j <= i
                      IN  IF Better(m, bucket[last])
                          THEN after = Append(Without(bucket, last), m)
                          ELSE after = bucket
      ]_vars

\* The step just taken had two matches in a bucket beside another bucket and
\* replaced the last of them: the first is still in the bucket, the last is
\* not, and the record is the bucket's last entry.
C17_Witness ==
    /\ pc = "check"
    /\ Cardinality(DOMAIN track_name_map) >= 2
    /\ Len(printed) = 3
    /\ printed[3] = BetterLine
    /\ LET after == track_name_map[printed[1].a.track_name]
       IN  /\ printed[1].b \in Range(after)
           /\ printed[2].b \notin Range(after)
           /\ after[Len(after)] = printed[1].a

\* (s.bitrate, s.duration) >= (r.bitrate, r.duration), in this order.
AtLeast(s, r) ==
    \/ s.bitrate > r.bitrate
    \/ (s.bitrate = r.bitrate /\ s.duration >= r.duration)

\* C18: after both resolution stages, for every extracted record that is no
\* survivor there is a survivor of at least its (bitrate, duration).
C18_NoQualityLoss ==
    Resolved =>
        \A i \in 1..Len(seen) :
            seen[i] \notin Survivors
                => \E s \in Survivors : AtLeast(s, seen[i])

\* The survivor of the identifier map for a music id was replaced in the
\* title map by a record without music id, and a record of that id that the
\* identifier map had dropped was extracted as well.
C18_Witness ==
    /\ Resolved
    /\ \E id \in DOMAIN id_map :
         /\ id_map[id] \notin Survivors
         /\ \E i \in SeenWithId(id) : seen[i] /= id_map[id]
         /\ \E s \in Survivors : s.music_id = None /\ Better(s, id_map[id])

\* The orders in which id_map.values() may yield the entries of a map with
\* these keys.
Orders(keys) ==
    {o \in [1..Cardinality(keys) -> keys] :
        \A i, j \in 1..Cardinality(keys) : o[i] = o[j] => i = j}

\* id_map.values().for_each(add_media_info) in the order o, from position i.
RECURSIVE MoveAll(_, _, _)
MoveAll(map, o, i) ==
    IF i > Len(o) THEN map
    ELSE MoveAll(add_media_info(map, id_map[o[i]]), o, i + 1)

\* without_id_list.iter().for_each(replace_media_info), from position i.
RECURSIVE CheckAll(_, _)
CheckAll(map, i) ==
    IF i > Len(without_id_list) THEN map
    ELSE CheckAll(replace_media_info(map, without_id_list[i]), i + 1)

\* The survivors of a run that moves the identifier map in the order o.
SurvivorsOf(o) ==
    LET map == CheckAll(MoveAll(<<>>, o, 1), 1)
    IN  UNION {Range(map[t]) : t \in DOMAIN map}

\* C19: the survivors at the end of resolution are those of every run that
\* extracted the same records in the same order and differs only in the
\* order in which id_map.values() yielded the identifier map's entries.
C19_OrderIndependent ==
    Resolved => \A o \in Orders(DOMAIN id_map) : Survivors = SurvivorsOf(o)

\* The name a writing run selects for the canonical name c in an output
\* directory that holds the files names: c when it is free, else the counted
\* name of the least count that is free.
RECURSIVE SelectedIn(_, _, _)
SelectedIn(names, c, count) ==
    IF CountedName(c, count) \in names THEN SelectedIn(names, c, count + 1)
    ELSE CountedName(c, count)

\* The names an output directory holds after a writing run has copied the
\* first n records of visited, in this order.
RECURSIVE NamesAfter(_, _, _)
NamesAfter(names, visited, n) ==
    IF n = 0 THEN names
    ELSE LET before == NamesAfter(names, visited, n - 1)
         IN  before \cup {SelectedIn(before, Canonical(visited[n]), 0)}

\* C20: in a preview, the destination reported for a survivor is the one a
\* writing run selects for it, given the same output directory at the start
\* and the same survivors visited in the same order before it; checked for
\* the survivors of the bucket visited first, whose order of visit is the
\* bucket's.
C20_PreviewFidelity ==
    [][(/\ dry_run /\ AtSurvivor
        /\ out_left = DOMAIN track_name_map \ {Head(out_cur).track_name}) =>
          LET bucket == track_name_map[Head(out_cur).track_name]
              done == Len(bucket) - Len(out_cur)
          IN  printed'[1].to =
                  SelectedIn(NamesAfter(DOMAIN dest, bucket, done),
                             Canonical(Head(out_cur)), 0)
      ]_vars

====
